---- MODULE Spec2Model ----
(***************************************************************************)
(* Model of the LumiBot music session: the queue store (src/music/queue.py),*)
(* the player (src/music/player.py) and the music commands                  *)
(* (src/commands/music_commands.py).                                        *)
(*                                                                          *)
(* Everything runs on one asyncio event loop, so a coroutine is atomic      *)
(* between two suspension points (an await that really suspends).  Every    *)
(* action below is one such atomic block.  The voice transport runs its own *)
(* player thread; it reaches the loop only through after_play, which posts  *)
(* a _play_next coroutine with run_coroutine_threadsafe.                    *)
(***************************************************************************)
EXTENDS Integers, Sequences, FiniteSets, TLC

\* ----------------------------------------------------------------- bounds
MaxQueue == 2      \* enqueues are refused beyond this pending length
MaxTasks == 2      \* command coroutines suspended at the same time
MaxCmds == 3       \* commands issued in one behaviour
MaxLog == 4        \* add calls in one behaviour of the queue-store harness
MaxLookups == 3    \* get_player calls in one behaviour
MaxOver == 2       \* entries a remote playlist can have beyond PLAYLIST_LIMIT

\* ------------------------------------------------------- program constants
IDLE_DELAY == 120  \* asyncio.sleep(120) of _disconnect_after_delay
CONNECT_RETRIES == 3

\* ------------------------------------------------------------------ values
None == <<>>                       \* Python None for an optional tuple
NoTimer == 0                       \* Python None for disconnect_timer
NoPlayer == 0                      \* Python None for the global player
NoneTs == -1                       \* Python None for an optional timestamp

Title(name) == [name |-> name, from |-> <<>>]
\* f"{title} (from {timestamp})"
Annotate(title, timestamp) == [title EXCEPT !.from = Append(@, timestamp)]

\* what the resolver can return for a play command: (title, webpage_url)
Resolved == { <<Title("A"), "urlA">>, <<Title("B"), "urlB">> }

\* a timestamp argument, already split at ':'; a part is an integer literal
\* or text that int() rejects
P(v) == [int |-> TRUE, val |-> v]
Bad == [int |-> FALSE, val |-> 0]
Timestamps == { <<P(1), P(30)>>, <<P(0), P(60)>>, <<P(-1), P(5)>>,
                <<P(2)>>, <<P(1), Bad>> }

\* what search_source can return: the entries in the resolver's order
SearchResults == { <<>>, << <<Title("A"), "urlA">>, <<Title("B"), "urlB">> >> }

\* what extract_info can return for a playlist: its entries in source order;
\* an entry is (title, url), or lacks one of the two keys
Incomplete == <<Title("?")>>
Playlists == { <<>>,
               << <<Title("A"), "urlA">>, <<Title("B"), "urlB">> >>,
               << <<Title("B"), "urlB">>, Incomplete >> }

\* the answer to a search prompt: a number, 'queue', or none in 30 seconds
AnswerQueue == 0
AnswerTimeout == -1

Slots == 1..MaxTasks

\* ------------------------------------------------------------- queue store
\* a list object handed out by the queue property: its items, and whether
\* it is the very list object _queue refers to
NoSnapshot == [taken |-> FALSE, items |-> <<>>, shared |-> FALSE]

\* the queue property, lines 22-25
queue_is_the_list(q) == [taken |-> TRUE, items |-> q, shared |-> TRUE]

queue_copy(q) == [taken |-> TRUE, items |-> q, shared |-> FALSE]

\* what a handed-out list holds once _queue has been changed in place to q
\* (append, insert, extend, pop, del, random.shuffle)
InPlace(snap, q) == IF snap.shared THEN [snap EXCEPT !.items = q] ELSE snap

\* ... and once _queue has been bound to a new list (clear, line 73)
Rebound(snap) == [snap EXCEPT !.shared = FALSE]

is_empty(q) == Len(q) = 0

add(q, title, url) == Append(q, <<title, url>>)

add_to_front(q, title, url, timestamp) ==
    IF timestamp # NoneTs
    THEN << <<title, url, timestamp>> >> \o q
    ELSE << <<title, url>> >> \o q

add_list_in_front(q, items) == items \o q

add_list(q, items) == q \o items

\* shuffle: the orders random.shuffle can leave the list in
shuffle_resamples(q) ==
    IF Len(q) > 1
    THEN {[k \in 1..Len(q) |-> q[f[k]]] : f \in [1..Len(q) -> 1..Len(q)]}
    ELSE {q}

shuffle(q) ==
    IF Len(q) > 1
    THEN {[k \in 1..Len(q) |-> q[f[k]]] : f \in Permutations(1..Len(q))}
    ELSE {q}

\* clear: the new pending list and the new current item
clear_pending_only(q, cur) == [queue |-> <<>>, current_item |-> cur]

clear(q, cur) == [queue |-> <<>>, current_item |-> None]

skip_to_off_by_one(q, index) ==
    IF 1 <= index /\ index <= Len(q)
    THEN SubSeq(q, index + 1, Len(q))
    ELSE q

skip_to(q, index) ==
    IF 1 <= index /\ index <= Len(q)
    THEN SubSeq(q, index, Len(q))
    ELSE q

\* get_next: the new pending list, the new current item and the return value
get_next_lifo(q) ==
    IF q # <<>>
    THEN LET next_item == q[Len(q)]
         IN  [queue |-> SubSeq(q, 1, Len(q) - 1),
              current_item |-> IF Len(next_item) = 3
                               THEN <<next_item[1], next_item[2]>>
                               ELSE next_item,
              ret |-> next_item]
    ELSE [queue |-> q, current_item |-> None, ret |-> None]

get_next_stores_returned(q) ==
    IF q # <<>>
    THEN [queue |-> Tail(q), current_item |-> Head(q), ret |-> Head(q)]
    ELSE [queue |-> q, current_item |-> None, ret |-> None]

get_next(q) ==
    IF q # <<>>
    THEN LET next_item == Head(q)
         IN  [queue |-> Tail(q),
              current_item |-> IF Len(next_item) = 3
                               THEN <<next_item[1], next_item[2]>>
                               ELSE next_item,
              ret |-> next_item]
    ELSE [queue |-> q, current_item |-> None, ret |-> None]

\* --------------------------------------------------------------- variables
VARIABLES
    queue,             \* MusicQueue._queue
    current_item,      \* MusicQueue._current_item
    is_playing,        \* MusicPlayer.is_playing
    current,           \* MusicPlayer.current
    voice_client,      \* MusicPlayer.voice_client: "none", "live" or "stale"
    disconnect_timer,  \* MusicPlayer.disconnect_timer: NoTimer or a timer id
    guildVc,           \* ctx.voice_client is a connected voice client
    tp,                \* its audio player: "none", "playing" or "paused"
    tpItem,            \* the item that audio player was started with
    ending,            \* player threads that ended and have yet to call after
    timers,            \* the live _disconnect_after_delay tasks
    ntimers,           \* timers created so far (the id of the latest)
    tasks,             \* the suspended command / _play_next coroutines
    posted,            \* _play_next coroutines posted by after_play, not begun
    ncmds,             \* commands issued so far
    timerDisc,         \* timer-driven disconnects of the present connection
    last,              \* the step taken last
    enqLog,            \* queue-store harness: titles passed to add
    deqLog,            \* queue-store harness: results of get_next
    snapshot,          \* the list a caller got from MusicQueue.queue
    player,            \* the module global player: NoPlayer or an instance
    created,           \* MusicPlayer objects constructed so far
    got                \* what the get_player calls so far returned

qvars == <<queue, current_item>>
pvars == <<is_playing, current, voice_client, disconnect_timer>>
xvars == <<guildVc, tp, tpItem, ending>>
svars == <<timers, ntimers, tasks, posted>>
hvars == <<ncmds, timerDisc, last>>
logs == <<enqLog, deqLog>>
lvars == <<player, created, got>>
ovars == <<snapshot, lvars>>
vars == <<qvars, pvars, xvars, svars, hvars, logs, ovars>>

Task(kind, pc, attempt, h, item, enqSeq) ==
    [kind |-> kind, pc |-> pc, attempt |-> attempt, h |-> h, item |-> item,
     enqSeq |-> enqSeq, entries |-> <<>>]
NoTask == Task("none", "none", 0, "none", None, -1)

Last(op, flag) == [op |-> op, flag |-> flag]
Step == Last("step", FALSE)     \* a step no property singles out

Init ==
    /\ queue = <<>>
    /\ current_item = None
    /\ is_playing = FALSE
    /\ current = None
    /\ voice_client = "none"
    /\ disconnect_timer = NoTimer
    /\ guildVc = FALSE
    /\ tp = "none"
    /\ tpItem = None
    /\ ending = 0
    /\ timers = {}
    /\ ntimers = 0
    /\ tasks = [i \in Slots |-> NoTask]
    /\ posted = 0
    /\ ncmds = 0
    /\ timerDisc = 0
    /\ last = Step
    /\ enqLog = <<>>
    /\ deqLog = <<>>
    /\ snapshot = NoSnapshot
    /\ player = 1
    /\ created = 1
    /\ got = <<1>>

\* ------------------------------------------------------------ the player
SleepingTimers(tm) == {t \in tm : t.st = "sleeping"}

\* _play_next, lines 181-183: cancel whatever disconnect_timer refers to
CancelTimer_forgotten(tm, t) == tm

CancelTimer(tm, t) == {x \in tm : x.id # t}

\* _disconnect_after_delay, line 242: the check made when the sleep is over
should_disconnect_flag_only(q, playing) == ~playing

should_disconnect(q, playing) == is_empty(q) /\ ~playing

\* after_play, lines 212-222: the number of _play_next coroutines it posts
after_play_silent_on_error(error) == IF error THEN 0 ELSE 1

after_play(error) == 1

\* VoiceClient.stop(): the audio player ends; its thread will call after
StopEnding == IF tp = "none" THEN ending ELSE ending + 1

\* VoiceClient.disconnect(): every reference to the live client goes stale
StaleTasks(ts) ==
    [i \in Slots |-> IF ts[i].h = "live" THEN [ts[i] EXCEPT !.h = "stale"]
                     ELSE ts[i]]
StaleRef(r) == IF r = "live" THEN "stale" ELSE r

FreeSlots == {i \in Slots : tasks[i].kind = "none"}
FirstFree == CHOOSE i \in FreeSlots : \A j \in FreeSlots : i <= j

\* _play_next(ctx) from its entry to its first suspension (from_url), run by
\* the coroutine in slot i (0: a posted coroutine that holds no slot) on the
\* pending list q; t carries the caller's enqueue stamp
PlayNext(i, q, t) ==
    LET tm == CancelTimer(timers, disconnect_timer) IN
    IF is_empty(q)
    THEN /\ is_playing' = FALSE
         /\ current' = None
         /\ ntimers' = ntimers + 1
         /\ timers' = tm \cup {[id |-> ntimers + 1, st |-> "sleeping",
                             delay |-> IDLE_DELAY]}
         /\ disconnect_timer' = ntimers + 1
         /\ queue' = q
         /\ current_item' = current_item
         /\ tasks' = IF i = 0 THEN tasks ELSE [tasks EXCEPT ![i] = NoTask]
         /\ last' = Last("play_next_empty", tm # timers)
    ELSE LET r == get_next(q) IN
         /\ is_playing' = TRUE
         /\ current' = r.ret
         /\ queue' = r.queue
         /\ current_item' = r.current_item
         /\ timers' = tm
         /\ ntimers' = ntimers
         /\ disconnect_timer' = NoTimer
         /\ tasks' = [tasks EXCEPT ![i] =
                         Task("play_next", "loading", 0, "none", r.ret, t.enqSeq)]
         /\ last' = Last("play_next_pop",
                         \E x \in SleepingTimers(timers) \ tm : x.id <= t.enqSeq)

\* _play_next, lines 196-225: from_url returned or raised
LoadDone(i, ok) ==
    /\ tasks[i].pc = "loading"
    /\ IF ~ok \/ (voice_client = "live" /\ tp = "playing")
       THEN \* from_url raised, or play() raised "Already playing audio"
            /\ tasks' = [tasks EXCEPT ![i].pc = "errSend"]
            /\ last' = Step
            /\ UNCHANGED <<tp, tpItem>>
       ELSE IF voice_client # "live"
       THEN /\ tasks' = [tasks EXCEPT ![i].pc = "lostSend"]
            /\ last' = Step
            /\ UNCHANGED <<tp, tpItem>>
       ELSE /\ tp' = "playing"
            /\ tpItem' = tasks[i].item
            /\ tasks' = [tasks EXCEPT ![i] = NoTask]
            /\ last' = Last("play", tp = "paused")
    /\ UNCHANGED <<qvars, pvars, guildVc, ending, timers, ntimers, posted,
                   ncmds, timerDisc, logs,
                   ovars>>

\* _play_next, lines 227-229: the error was sent, advance again
ErrSent_gives_up(i) ==
    /\ tasks[i].pc = "errSend"
    /\ tasks' = [tasks EXCEPT ![i] = NoTask]
    /\ last' = Step
    /\ UNCHANGED <<qvars, pvars, xvars, timers, ntimers, posted, ncmds,
                   timerDisc, logs, ovars>>

ErrSent(i) ==
    /\ tasks[i].pc = "errSend"
    /\ PlayNext(i, queue, tasks[i])
    /\ UNCHANGED <<voice_client, xvars, posted, ncmds, timerDisc, logs,
                   ovars>>

\* _play_next, lines 207-209: the loss was sent, give up
LostSent_advances(i) ==
    /\ tasks[i].pc = "lostSend"
    /\ PlayNext(i, queue, tasks[i])
    /\ UNCHANGED <<voice_client, xvars, posted, ncmds, timerDisc, logs,
                   ovars>>

LostSent(i) ==
    /\ tasks[i].pc = "lostSend"
    /\ is_playing' = FALSE
    /\ tasks' = [tasks EXCEPT ![i] = NoTask]
    /\ last' = Step
    /\ UNCHANGED <<qvars, current, voice_client, disconnect_timer, xvars,
                   timers, ntimers, posted, ncmds, timerDisc, logs,
                   ovars>>

\* the audio of the playing track runs out (or breaks off with an error)
TrackEnds ==
    /\ tp = "playing"
    /\ tp' = "none"
    /\ tpItem' = None
    /\ ending' = ending + 1
    /\ last' = Step
    /\ UNCHANGED <<qvars, pvars, guildVc, svars, ncmds, timerDisc, logs,
                   ovars>>

\* the player thread calls after_play(error)
AfterPlay(error) ==
    /\ ending > 0
    /\ ending' = ending - 1
    /\ posted' = posted + after_play(error)
    /\ last' = Last("after_play", error)
    /\ UNCHANGED <<qvars, pvars, guildVc, tp, tpItem, timers, ntimers, tasks,
                   ncmds, timerDisc, logs,
                   ovars>>

\* the loop begins a posted _play_next
AdvancePosted ==
    /\ posted > 0
    /\ posted' = posted - 1
    /\ IF is_empty(queue)
       THEN PlayNext(0, queue, NoTask)
       ELSE /\ FreeSlots # {}
            /\ PlayNext(FirstFree, queue,
                        Task("advance", "none", 0, "none", None, -1))
    /\ UNCHANGED <<voice_client, xvars, ncmds, timerDisc, logs,
                   ovars>>

\* _disconnect_after_delay, lines 239-245: the sleep is over
TimerFire(t) ==
    /\ t \in timers
    /\ t.st = "sleeping"
    /\ IF should_disconnect(queue, is_playing) /\ voice_client = "live"
       THEN /\ guildVc' = FALSE
            /\ tp' = "none"
            /\ tpItem' = None
            /\ ending' = StopEnding
            /\ voice_client' = "stale"
            /\ tasks' = StaleTasks(tasks)
            /\ timers' = (timers \ {t}) \cup {[t EXCEPT !.st = "disconnecting"]}
            /\ timerDisc' = timerDisc + 1
            /\ last' = Last("timer_fire", TRUE)
       ELSE /\ timers' = timers \ {t}
            /\ last' = Last("timer_fire", FALSE)
            /\ UNCHANGED <<guildVc, tp, tpItem, ending, voice_client, tasks,
                           timerDisc>>
    /\ UNCHANGED <<qvars, is_playing, current, disconnect_timer, ntimers,
                   posted, ncmds, logs,
                   ovars>>

\* _disconnect_after_delay, lines 246-251: disconnect returned or raised
TimerDisconnected(t) ==
    /\ t \in timers
    /\ t.st = "disconnecting"
    /\ voice_client' = "none"
    /\ timers' = timers \ {t}
    /\ last' = Step
    /\ UNCHANGED <<qvars, is_playing, current, disconnect_timer, xvars,
                   ntimers, tasks, posted, ncmds, timerDisc, logs,
                   ovars>>

\* ------------------------------------------------------------ connecting
CanIssue == ncmds < MaxCmds

\* what a command does once connect_to_voice has returned a client
AfterConnect(kind) == IF kind = "reconnect" THEN "none" ELSE "resolve"

\* connect_to_voice, lines 48-59, run by a new or resumed coroutine in slot i
BeginConnect(i, kind) ==
    IF guildVc
    THEN /\ voice_client' = "live"
         /\ tasks' = [tasks EXCEPT ![i] =
                         IF AfterConnect(kind) = "none" THEN NoTask
                         ELSE Task(kind, AfterConnect(kind), 0, "none", None, -1)]
    ELSE /\ voice_client' = voice_client
         /\ tasks' = [tasks EXCEPT ![i] =
                         Task(kind, "connect", 0, "none", None, -1)]

\* connect_to_voice, lines 70-83: the retry loop.  Between two attempts the
\* coroutine only sends a notice and sleeps, so the loop is one step: failed
\* attempts fail first, then either an attempt succeeds or the cap is reached
\* and the loop returns None.
\* a disconnect() of the guild's voice client is still awaited: the client
\* stays registered with the guild until disconnect() returns, and connect()
\* raises "Already connected" for as long as it is registered
Disconnecting ==
    \/ \E i \in Slots : tasks[i].pc = "leaving"
    \/ \E t \in timers : t.st = "disconnecting"

\* 2 ** attempt
RECURSIVE Pow2(_)
Pow2(n) == IF n = 0 THEN 1 ELSE 2 * Pow2(n - 1)

\* what one run of the loop has done so far: connect() calls made, the sleeps
\* taken, the notices sent, and whether a client is returned
NoAttempts ==
    [attempts |-> 0, waits |-> <<>>, retry_notices |-> 0, fail_notices |-> 0,
     handle |-> FALSE]

\* the loop from iteration 'attempt' on, when the first 'failed' calls of
\* connect() raise and the next one returns a client
RECURSIVE connect_loop_sleeps_last(_, _, _)
connect_loop_sleeps_last(failed, attempt, acc) ==
    IF attempt >= CONNECT_RETRIES
    THEN acc
    ELSE IF attempt >= failed
    THEN [acc EXCEPT !.attempts = @ + 1, !.handle = TRUE]
    ELSE connect_loop_sleeps_last(failed, attempt + 1,
             [acc EXCEPT !.attempts = @ + 1,
                         !.retry_notices = @ + 1,
                         !.waits = Append(@, Pow2(attempt))])

RECURSIVE connect_loop(_, _, _)
connect_loop(failed, attempt, acc) ==
    IF attempt >= CONNECT_RETRIES
    THEN acc                                            \* line 85
    ELSE IF attempt >= failed
    THEN [acc EXCEPT !.attempts = @ + 1, !.handle = TRUE]
    ELSE IF attempt < CONNECT_RETRIES - 1
    THEN connect_loop(failed, attempt + 1,
             [acc EXCEPT !.attempts = @ + 1,
                         !.retry_notices = @ + 1,
                         !.waits = Append(@, Pow2(attempt))])
    ELSE [acc EXCEPT !.attempts = @ + 1, !.fail_notices = @ + 1]

ConnectAttempts(failed) == connect_loop(failed, 0, NoAttempts).attempts
ConnectSucceeds(failed) == connect_loop(failed, 0, NoAttempts).handle

ConnectLoop(i, failed) ==
    /\ tasks[i].pc = "connect"
    /\ IF ConnectSucceeds(failed)
       THEN /\ ~guildVc       \* connect() raises when a client already exists
            /\ ~Disconnecting
            /\ guildVc' = TRUE
            /\ timerDisc' = 0
            /\ tasks' = [tasks EXCEPT ![i].pc = "joined", ![i].h = "live"]
       ELSE /\ tasks' = [tasks EXCEPT ![i] = NoTask]
            /\ UNCHANGED <<guildVc, timerDisc>>
    /\ last' = Last(IF ConnectSucceeds(failed) THEN "connected" ELSE "gave_up",
                    failed > 0)
    /\ UNCHANGED <<qvars, pvars, tp, tpItem, ending, timers, ntimers, posted,
                   ncmds, logs,
                   ovars>>

\* connect_to_voice, lines 73-76: "Joined" was sent
Joined(i) ==
    /\ tasks[i].pc = "joined"
    /\ voice_client' = tasks[i].h
    /\ tasks' = [tasks EXCEPT ![i] =
                    IF AfterConnect(tasks[i].kind) = "none" THEN NoTask
                    ELSE [@ EXCEPT !.pc = AfterConnect(tasks[i].kind),
                                    !.h = "none"]]
    /\ last' = Step
    /\ UNCHANGED <<qvars, is_playing, current, disconnect_timer, xvars,
                   timers, ntimers, posted, ncmds, timerDisc, logs,
                   ovars>>

\* ---------------------------------------------------------- play command
\* the stamp an enqueue leaves in its coroutine: the id of the latest timer
\* when an idle timer is pending at that moment
EnqStamp == IF SleepingTimers(timers) # {} THEN ntimers ELSE -1

\* play_command -> play_from_url_or_search, lines 95-97
PlayCmd(inVoice) ==
    /\ CanIssue
    /\ ncmds' = ncmds + 1
    /\ IF inVoice
       THEN /\ FreeSlots # {}
            /\ BeginConnect(FirstFree, "play")
       ELSE UNCHANGED <<voice_client, tasks>>
    /\ last' = Step
    /\ UNCHANGED <<qvars, is_playing, current, disconnect_timer, xvars,
                   timers, ntimers, posted, timerDisc, logs,
                   ovars>>

\* _handle_url / _handle_search up to "Added to queue": extract_info returned
\* the entry r, or raised (or the search came back empty)
Resolve(i, ok, r) ==
    /\ tasks[i].kind = "play"
    /\ tasks[i].pc = "resolve"
    /\ IF ok
       THEN /\ Len(queue) < MaxQueue
            /\ queue' = add(queue, r[1], r[2])
            /\ tasks' = [tasks EXCEPT ![i].pc = "added", ![i].enqSeq = EnqStamp]
       ELSE /\ tasks' = [tasks EXCEPT ![i] = NoTask]
            /\ UNCHANGED queue
    /\ last' = Step
    /\ UNCHANGED <<current_item, pvars, xvars, timers, ntimers, posted,
                   ncmds, timerDisc, logs,
                   ovars>>

\* lines 134-136 / 165-167 (and the like in search and playlist):
\* "if not is_playing: await _play_next(ctx)"
Added_unchecked(i) ==
    /\ tasks[i].pc = "added"
    /\ PlayNext(i, queue, tasks[i])
    /\ UNCHANGED <<voice_client, xvars, posted, ncmds, timerDisc, logs,
                   ovars>>

Added(i) ==
    /\ tasks[i].pc = "added"
    /\ IF ~is_playing
       THEN PlayNext(i, queue, tasks[i])
       ELSE /\ tasks' = [tasks EXCEPT ![i] = NoTask]
            /\ last' = Step
            /\ UNCHANGED <<qvars, is_playing, current, disconnect_timer,
                           timers, ntimers>>
    /\ UNCHANGED <<voice_client, xvars, posted, ncmds, timerDisc, logs,
                   ovars>>

\* ------------------------------------------------------ search command
\* search_command, lines 34-40
SearchCmd(inVoice) ==
    /\ CanIssue
    /\ ncmds' = ncmds + 1
    /\ IF inVoice
       THEN /\ FreeSlots # {}
            /\ BeginConnect(FirstFree, "search")
       ELSE UNCHANGED <<voice_client, tasks>>
    /\ last' = Step
    /\ UNCHANGED <<qvars, is_playing, current, disconnect_timer, xvars,
                   timers, ntimers, posted, timerDisc, logs,
                   ovars>>

\* search_command, lines 45-57: search_source returned the entries es
SearchResolved(i, es) ==
    /\ tasks[i].kind = "search"
    /\ tasks[i].pc = "resolve"
    /\ tasks' = [tasks EXCEPT ![i] =
                    IF es = <<>> THEN NoTask
                    ELSE [@ EXCEPT !.pc = "prompt", !.entries = es]]
    /\ last' = Step
    /\ UNCHANGED <<qvars, pvars, xvars, timers, ntimers, posted, ncmds,
                   timerDisc, logs,
                   ovars>>

\* search_command, line 67: the test that sends an answer to the first entry
TakesFirst(answer) == answer = AnswerQueue \/ tp = "playing"

\* search_command, lines 65-88: wait_for returned the answer, or timed out
SearchAnswered(i, answer) ==
    /\ tasks[i].pc = "prompt"
    /\ answer \in {AnswerTimeout, AnswerQueue} \cup (1..Len(tasks[i].entries))
    /\ LET es == tasks[i].entries IN
       IF answer = AnswerTimeout \/ (answer # AnswerQueue /\ ~guildVc)
       THEN \* timed out, or ctx.voice_client is None and is_playing() raises
            /\ tasks' = [tasks EXCEPT ![i] = NoTask]
            /\ last' = Last("search_answer", FALSE)
            /\ UNCHANGED <<qvars, is_playing, current, disconnect_timer,
                           timers, ntimers>>
       ELSE IF TakesFirst(answer)
       THEN /\ Len(queue) < MaxQueue
            /\ queue' = add(queue, es[1][1], es[1][2])
            /\ tasks' = [tasks EXCEPT ![i].pc = "added",
                                      ![i].enqSeq = EnqStamp,
                                      ![i].entries = <<>>]
            /\ last' = Last("search_answer", TRUE)
            /\ UNCHANGED <<current_item, is_playing, current,
                           disconnect_timer, timers, ntimers>>
       ELSE /\ Len(queue) < MaxQueue
            /\ IF is_playing
               THEN /\ queue' = add(queue, es[answer][1], es[answer][2])
                    /\ tasks' = [tasks EXCEPT ![i] = NoTask]
                    /\ last' = Last("search_answer", TRUE)
                    /\ UNCHANGED <<current_item, is_playing, current,
                                   disconnect_timer, timers, ntimers>>
               ELSE PlayNext(i, add(queue, es[answer][1], es[answer][2]),
                             [tasks[i] EXCEPT !.enqSeq = EnqStamp])
    /\ UNCHANGED <<voice_client, xvars, posted, ncmds, timerDisc, logs,
                   ovars>>

\* ---------------------------------------------------- playlist command
\* playlist_command, lines 96-102
PlaylistCmd(validUrl) ==
    /\ CanIssue
    /\ ncmds' = ncmds + 1
    /\ IF validUrl
       THEN /\ FreeSlots # {}
            /\ BeginConnect(FirstFree, "playlist")
       ELSE UNCHANGED <<voice_client, tasks>>
    /\ last' = Step
    /\ UNCHANGED <<qvars, is_playing, current, disconnect_timer, xvars,
                   timers, ntimers, posted, timerDisc, logs,
                   ovars>>

\* playlist_command, lines 138-141: the entries that have a title and a url
RECURSIVE songs_to_add(_)
songs_to_add(entries) ==
    IF entries = <<>> THEN <<>>
    ELSE IF Len(Head(entries)) = 2
         THEN <<Head(entries)>> \o songs_to_add(Tail(entries))
         ELSE songs_to_add(Tail(entries))

\* playlist_command, lines 120-151: extract_info raised or returned no
\* 'entries' (ok false), or returned the entries es; the loop over them only
\* fills a local list, and add_list then appends it in one step
playlist_found_unchecked(ok, es) == es # <<>>

\* lines 120-131: extract_info returned a dict with a non-empty 'entries'
playlist_found(ok, es) == ok /\ es # <<>>

PlaylistEnqueue(i, ok, es) ==
    /\ tasks[i].kind = "playlist"
    /\ tasks[i].pc = "resolve"
    /\ IF playlist_found(ok, es)
       THEN /\ queue' = add_list(queue, songs_to_add(es))
            /\ tasks' = [tasks EXCEPT ![i].pc = "added", ![i].enqSeq = EnqStamp]
       ELSE /\ tasks' = [tasks EXCEPT ![i] = NoTask]
            /\ UNCHANGED queue
    /\ last' = Last("playlist", playlist_found(ok, es))
    /\ UNCHANGED <<current_item, pvars, xvars, timers, ntimers, posted,
                   ncmds, timerDisc, logs,
                   ovars>>

PlaylistResolved(i, ok, es) ==
    /\ playlist_found(ok, es) => Len(queue) + Len(songs_to_add(es)) <= MaxQueue
    /\ PlaylistEnqueue(i, ok, es)

\* playlist_command, lines 107-120: the resolver is given the option
\* playlist_items '1-PLAYLIST_LIMIT' and returns the entries at those
\* positions of the playlist, in the playlist's order
PLAYLIST_LIMIT == 30

playlist_items_unlimited(entries, limit) == entries

playlist_items(entries, limit) ==
    SubSeq(entries, 1, IF Len(entries) < limit THEN Len(entries) ELSE limit)

\* the playlist command's resolution when the url names the playlist held
\* in the task's entries
PlaylistFetched(i) ==
    PlaylistEnqueue(i, TRUE, playlist_items(tasks[i].entries, PLAYLIST_LIMIT))

\* ------------------------------------------------- pause, resume, skip
\* pause, lines 264-265: what becomes of the audio player in state t when
\* self.voice_client is vc
pause_toggles(vc, t) ==
    IF vc = "live" /\ t = "playing" THEN "paused"
    ELSE IF vc = "live" /\ t = "paused" THEN "playing" ELSE t

pause(vc, t) == IF vc = "live" /\ t = "playing" THEN "paused" ELSE t

\* resume, lines 277-278
resume(vc, t) == IF vc = "live" /\ t = "paused" THEN "playing" ELSE t

\* skip, line 290: the test that lets skip stop the transport
skip_stops_unless_idle(vc, t) == vc = "live" /\ t # "none"

skip_stops(vc, t) == vc = "live" /\ t = "playing"

Pause ==
    /\ CanIssue
    /\ ncmds' = ncmds + 1
    /\ tp' = pause(voice_client, tp)
    /\ last' = Last("pause", voice_client = "live" /\ tp = "playing")
    /\ UNCHANGED <<qvars, pvars, guildVc, tpItem, ending, svars, timerDisc,
                   logs,
                   ovars>>

Resume ==
    /\ CanIssue
    /\ ncmds' = ncmds + 1
    /\ tp' = resume(voice_client, tp)
    /\ last' = Last("resume", voice_client = "live" /\ tp = "paused")
    /\ UNCHANGED <<qvars, pvars, guildVc, tpItem, ending, svars, timerDisc,
                   logs,
                   ovars>>

Skip ==
    /\ CanIssue
    /\ ncmds' = ncmds + 1
    /\ IF skip_stops(voice_client, tp)
       THEN /\ tp' = "none"
            /\ tpItem' = None
            /\ ending' = StopEnding
       ELSE UNCHANGED <<tp, tpItem, ending>>
    /\ last' = Last("skip", skip_stops(voice_client, tp))
    /\ UNCHANGED <<qvars, pvars, guildVc, svars, timerDisc, logs,
                   ovars>>

\* ------------------------------------------------------ timestamp_skip
\* minutes, seconds = map(int, timestamp.split(':')) raises ValueError
ParseFails(ts) == Len(ts) # 2 \/ \E k \in 1..Len(ts) : ~ts[k].int
\* line 311
OutOfRange(ts) == ts[1].val < 0 \/ ts[2].val < 0 \/ ts[2].val >= 60
total_seconds(ts) == ts[1].val * 60 + ts[2].val

\* timestamp_skip gets as far as add_to_front and stop
SeekAccepted(ts) ==
    /\ voice_client = "live" /\ tp = "playing"
    /\ ~ParseFails(ts)
    /\ ~OutOfRange(ts)
    /\ current # None
    /\ Len(current) = 2          \* "title, url = current_song" unpacks

TSkip(ts) ==
    /\ CanIssue
    /\ ncmds' = ncmds + 1
    /\ IF SeekAccepted(ts)
       THEN /\ queue' = add_to_front(queue, Annotate(current[1], ts),
                                     current[2], total_seconds(ts))
            /\ tp' = "none"
            /\ tpItem' = None
            /\ ending' = StopEnding
       ELSE UNCHANGED <<queue, tp, tpItem, ending>>
    /\ last' = Last("tskip", SeekAccepted(ts))
    /\ UNCHANGED <<current_item, pvars, guildVc, svars, timerDisc, logs,
                   ovars>>

\* ---------------------------------------------------- qskip and qclear
QSkipValid_no_upper_bound(index) == ~is_empty(queue) /\ index >= 1

QSkipValid(index) == ~is_empty(queue) /\ index >= 1 /\ index <= Len(queue)

QSkip(index) ==
    /\ CanIssue
    /\ ncmds' = ncmds + 1
    /\ IF ~QSkipValid(index)
       THEN /\ last' = Last("qskip_rejected", FALSE)
            /\ UNCHANGED <<qvars, is_playing, current, disconnect_timer, tp,
                           tpItem, ending, timers, ntimers, tasks>>
       ELSE IF guildVc /\ tp = "playing"
       THEN /\ queue' = skip_to(queue, index)
            /\ tp' = "none"
            /\ tpItem' = None
            /\ ending' = StopEnding
            /\ last' = Last("qskip", index > 1)
            /\ UNCHANGED <<current_item, is_playing, current,
                           disconnect_timer, timers, ntimers, tasks>>
       ELSE /\ FreeSlots # {}
            /\ PlayNext(FirstFree, skip_to(queue, index),
                        Task("qskip", "none", 0, "none", None, -1))
            /\ UNCHANGED <<tp, tpItem, ending>>
    /\ UNCHANGED <<voice_client, guildVc, posted, timerDisc, logs,
                   ovars>>

QClear ==
    /\ CanIssue
    /\ ncmds' = ncmds + 1
    /\ IF is_empty(queue)
       THEN UNCHANGED <<qvars, tp, tpItem, ending>>
       ELSE /\ queue' = clear(queue, current_item).queue
            /\ current_item' = clear(queue, current_item).current_item
            /\ IF guildVc /\ tp = "playing"
               THEN /\ tp' = "none"
                    /\ tpItem' = None
                    /\ ending' = StopEnding
               ELSE UNCHANGED <<tp, tpItem, ending>>
    /\ last' = Last("qclear", ~is_empty(queue))
    /\ UNCHANGED <<pvars, guildVc, svars, timerDisc, logs,
                   ovars>>

\* ------------------------------------------------- leave and reconnect
\* leave, lines 344-349: stop, then disconnect is awaited
Leave ==
    /\ CanIssue
    /\ ncmds' = ncmds + 1
    /\ IF guildVc
       THEN /\ FreeSlots # {}
            /\ guildVc' = FALSE
            /\ tp' = "none"
            /\ tpItem' = None
            /\ ending' = StopEnding
            /\ voice_client' = StaleRef(voice_client)
            /\ tasks' = [StaleTasks(tasks) EXCEPT ![FirstFree] =
                            Task("leave", "leaving", 0, "none", None, -1)]
       ELSE UNCHANGED <<guildVc, tp, tpItem, ending, voice_client, tasks>>
    /\ last' = Last("leave", guildVc)
    /\ UNCHANGED <<qvars, is_playing, current, disconnect_timer, timers,
                   ntimers, posted, timerDisc, logs,
                   ovars>>

\* leave, lines 350-357: disconnect returned
LeaveDone(i) ==
    /\ tasks[i].pc = "leaving"
    /\ queue' = clear(queue, current_item).queue
    /\ current_item' = clear(queue, current_item).current_item
    /\ is_playing' = FALSE
    /\ current' = None
    /\ voice_client' = "none"
    /\ timers' = CancelTimer(timers, disconnect_timer)
    /\ disconnect_timer' = NoTimer
    /\ tasks' = [tasks EXCEPT ![i] = NoTask]
    /\ last' = Last("left", FALSE)
    /\ UNCHANGED <<xvars, ntimers, posted, ncmds, timerDisc, logs,
                   ovars>>

\* reconnect_command, lines 272-285
Reconnect ==
    /\ CanIssue
    /\ ncmds' = ncmds + 1
    /\ FreeSlots # {}
    /\ IF guildVc
       THEN /\ guildVc' = FALSE
            /\ tp' = "none"
            /\ tpItem' = None
            /\ ending' = StopEnding
            /\ voice_client' = StaleRef(voice_client)
            /\ tasks' = [StaleTasks(tasks) EXCEPT ![FirstFree] =
                            Task("reconnect", "resleep", 0, "none", None, -1)]
       ELSE /\ BeginConnect(FirstFree, "reconnect")
            /\ UNCHANGED <<guildVc, tp, tpItem, ending>>
    /\ last' = Step
    /\ UNCHANGED <<qvars, is_playing, current, disconnect_timer, timers,
                   ntimers, posted, timerDisc, logs,
                   ovars>>

\* reconnect_command, line 285: the one-second sleep is over
ReSlept(i) ==
    /\ tasks[i].pc = "resleep"
    /\ BeginConnect(i, "reconnect")
    /\ last' = Step
    /\ UNCHANGED <<qvars, is_playing, current, disconnect_timer, xvars,
                   timers, ntimers, posted, ncmds, timerDisc, logs,
                   ovars>>

\* ------------------------------------------------------- specification
Next ==
    \/ \E b \in BOOLEAN : PlayCmd(b)
    \/ \E i \in Slots, n \in 0..CONNECT_RETRIES : ConnectLoop(i, n)
    \/ \E i \in Slots : Joined(i)
    \/ \E i \in Slots, b \in BOOLEAN, r \in Resolved : Resolve(i, b, r)
    \/ \E i \in Slots : Added(i)
    \/ \E b \in BOOLEAN : SearchCmd(b)
    \/ \E i \in Slots, es \in SearchResults : SearchResolved(i, es)
    \/ \E i \in Slots, a \in -1..2 : SearchAnswered(i, a)
    \/ \E b \in BOOLEAN : PlaylistCmd(b)
    \/ \E i \in Slots, b \in BOOLEAN, es \in Playlists : PlaylistResolved(i, b, es)
    \/ \E i \in Slots, b \in BOOLEAN : LoadDone(i, b)
    \/ \E i \in Slots : ErrSent(i)
    \/ \E i \in Slots : LostSent(i)
    \/ TrackEnds
    \/ \E b \in BOOLEAN : AfterPlay(b)
    \/ AdvancePosted
    \/ \E t \in timers : TimerFire(t)
    \/ \E t \in timers : TimerDisconnected(t)
    \/ Pause
    \/ Resume
    \/ Skip
    \/ \E ts \in Timestamps : TSkip(ts)
    \/ \E n \in 0..(MaxQueue + 1) : QSkip(n)
    \/ QClear
    \/ Leave
    \/ \E i \in Slots : LeaveDone(i)
    \/ Reconnect
    \/ \E i \in Slots : ReSlept(i)

Spec == Init /\ [][Next]_vars

\* what the scheduler and the transport do by themselves: every suspended
\* coroutine is resumed, every sleep ends, every ended player thread calls
\* after, every posted coroutine is begun, a playing track runs out
LoopStep ==
    \/ \E i \in Slots, n \in 0..CONNECT_RETRIES : ConnectLoop(i, n)
    \/ \E i \in Slots : Joined(i)
    \/ \E i \in Slots, b \in BOOLEAN, r \in Resolved : Resolve(i, b, r)
    \/ \E i \in Slots : Added(i)
    \/ \E i \in Slots, es \in SearchResults : SearchResolved(i, es)
    \/ \E i \in Slots, a \in -1..2 : SearchAnswered(i, a)
    \/ \E i \in Slots, b \in BOOLEAN, es \in Playlists : PlaylistResolved(i, b, es)
    \/ \E i \in Slots, b \in BOOLEAN : LoadDone(i, b)
    \/ \E i \in Slots : ErrSent(i)
    \/ \E i \in Slots : LostSent(i)
    \/ \E i \in Slots : LeaveDone(i)
    \/ \E i \in Slots : ReSlept(i)
    \/ AdvancePosted
TransportStep == TrackEnds \/ \E b \in BOOLEAN : AfterPlay(b)
TimerStep ==
    \/ \E t \in timers : TimerFire(t)
    \/ \E t \in timers : TimerDisconnected(t)

FairSpec ==
    /\ Init /\ [][Next]_vars
    /\ WF_vars(LoopStep)
    /\ WF_vars(TransportStep)
    /\ WF_vars(TimerStep)

\* ------------------------------------------------- queue-store harness
\* add and get_next alone, called in any order on the queue store
QAdd(r) ==
    /\ Len(enqLog) < MaxLog
    /\ queue' = add(queue, r[1], r[2])
    /\ enqLog' = Append(enqLog, <<r[1], r[2]>>)
    /\ snapshot' = InPlace(snapshot, queue')
    /\ UNCHANGED <<current_item, deqLog, pvars, xvars, svars, hvars, lvars>>

QGetNext ==
    /\ LET g == get_next(queue) IN
        /\ queue' = g.queue
        /\ current_item' = g.current_item
        /\ deqLog' = IF g.ret # None THEN Append(deqLog, g.ret) ELSE deqLog
    /\ snapshot' = InPlace(snapshot, queue')
    /\ UNCHANGED <<enqLog, pvars, xvars, svars, hvars, lvars>>

QueueNext == (\E r \in Resolved : QAdd(r)) \/ QGetNext

QueueSpec == Init /\ [][QueueNext]_vars

\* skip_to and get_next called on whatever add has put into the queue store
QSkipTo(index) ==
    /\ queue' = skip_to(queue, index)
    /\ last' = Last("skip_to", 1 < index /\ index <= Len(queue))
    /\ snapshot' = InPlace(snapshot, queue')
    /\ UNCHANGED <<current_item, pvars, xvars, svars, ncmds, timerDisc, logs,
                   lvars>>

\* add_to_front, with and without a timestamp
QAddFront(r, timestamp) ==
    /\ Len(enqLog) < MaxLog
    /\ queue' = add_to_front(queue, r[1], r[2], timestamp)
    /\ enqLog' = Append(enqLog, Head(queue'))
    /\ snapshot' = InPlace(snapshot, queue')
    /\ UNCHANGED <<current_item, deqLog, pvars, xvars, svars, hvars, lvars>>

QShuffle ==
    /\ \E q \in shuffle(queue) :
          /\ queue' = q
          /\ last' = Last("shuffle", q # queue)
    /\ snapshot' = InPlace(snapshot, queue')
    /\ UNCHANGED <<current_item, pvars, xvars, svars, ncmds, timerDisc, logs,
                   lvars>>

\* queue_manager.clear(); last tells a clear of what a clear left from a
\* first one, and whether the first one found tracks pending and a current
QStoreClear ==
    /\ queue' = clear(queue, current_item).queue
    /\ current_item' = clear(queue, current_item).current_item
    /\ last' = IF /\ last.op \in {"clear", "clear_again"}
                  /\ queue = <<>> /\ current_item = None
               THEN Last("clear_again", last.flag)
               ELSE Last("clear", queue # <<>> /\ current_item # None)
    /\ snapshot' = Rebound(snapshot)
    /\ UNCHANGED <<pvars, xvars, svars, ncmds, timerDisc, logs, lvars>>

StoreNext ==
    \/ \E r \in Resolved : QAdd(r)
    \/ QShuffle
    \/ QStoreClear
    \/ \E r \in Resolved, t \in {NoneTs, 90} : QAddFront(r, t)
    \/ \E n \in 0..(MaxLog + 1) : QSkipTo(n)
    \/ QGetNext

StoreSpec == Init /\ [][StoreNext]_vars

\* --------------------------------------------------- snapshots of pending
\* a caller reads the queue property (as queue_list_command does, line 187)
QSnapshot ==
    /\ snapshot' = queue_copy(queue)
    /\ UNCHANGED <<qvars, pvars, xvars, svars, hvars, logs, lvars>>

\* the caller removes the first item of the list it got
QSnapshotEdit ==
    /\ snapshot.taken
    /\ snapshot.items # <<>>
    /\ snapshot' = [snapshot EXCEPT !.items = Tail(@)]
    /\ queue' = IF snapshot.shared THEN Tail(snapshot.items) ELSE queue
    /\ UNCHANGED <<current_item, pvars, xvars, svars, hvars, logs, lvars>>

SnapshotNext ==
    \/ \E r \in Resolved : QAdd(r)
    \/ QGetNext
    \/ \E n \in 0..(MaxLog + 1) : QSkipTo(n)
    \/ QShuffle
    \/ QStoreClear
    \/ QSnapshot
    \/ QSnapshotEdit

SnapshotSpec == Init /\ [][SnapshotNext]_vars

\* ------------------------------------------------- uninterrupted playback
\* a connected Idle session on which a playlist command has just put the
\* tracks t1..tn into pending (add_list done, "Playlist fully added" being
\* sent) and on which no further command is issued: the command goes on to
\* _play_next, every load succeeds and every track plays to its end
Tracklists == UNION {[1..n -> Resolved] : n \in 1..MaxLog}

PlaybackInit ==
    /\ queue \in Tracklists
    /\ enqLog = queue
    /\ current_item = None
    /\ is_playing = FALSE
    /\ current = None
    /\ voice_client = "live"
    /\ disconnect_timer = NoTimer
    /\ guildVc = TRUE
    /\ tp = "none"
    /\ tpItem = None
    /\ ending = 0
    /\ timers = {}
    /\ ntimers = 0
    /\ tasks = [i \in Slots |->
                   IF i = 1 THEN Task("playlist", "added", 0, "none", None, -1)
                   ELSE NoTask]
    /\ posted = 0
    /\ ncmds = 1
    /\ timerDisc = 0
    /\ last = Last("playlist", TRUE)
    /\ deqLog = <<>>
    /\ snapshot = NoSnapshot
    /\ player = 1
    /\ created = 1
    /\ got = <<1>>

PlaybackNext ==
    \/ \E i \in Slots : Added(i)
    \/ \E i \in Slots : LoadDone(i, TRUE)
    \/ TrackEnds
    \/ AfterPlay(FALSE)
    \/ AdvancePosted

PlaybackSpec == PlaybackInit /\ [][PlaybackNext]_vars

\* ------------------------------------------------------ long playlists
\* a connected session, Idle or playing track A with some tracks pending,
\* on which a playlist command has connected and is about to resolve a url
\* that names a playlist of up to PLAYLIST_LIMIT + MaxOver entries
SourceEntry(p, k) ==
    IF p = 2 /\ k % 3 = 0 THEN Incomplete
    ELSE IF k % 2 = 1 THEN <<Title("A"), "urlA">> ELSE <<Title("B"), "urlB">>

PlaylistSources ==
    { [k \in 1..n |-> SourceEntry(p, k)] :
        n \in 0..(PLAYLIST_LIMIT + MaxOver), p \in 1..2 }

Pendings == {<<>>} \cup UNION {[1..n -> Resolved] : n \in 1..MaxQueue}

PlaylistInit ==
    /\ is_playing \in BOOLEAN
    /\ queue \in (IF is_playing THEN Pendings ELSE {<<>>})
    /\ current_item = (IF is_playing THEN <<Title("A"), "urlA">> ELSE None)
    /\ current = current_item
    /\ tpItem = current_item
    /\ tp = (IF is_playing THEN "playing" ELSE "none")
    /\ voice_client = "live"
    /\ disconnect_timer = NoTimer
    /\ guildVc = TRUE
    /\ ending = 0
    /\ timers = {}
    /\ ntimers = 0
    /\ \E src \in PlaylistSources :
         tasks = [i \in Slots |->
                    IF i = 1
                    THEN [Task("playlist", "resolve", 0, "none", None, -1)
                            EXCEPT !.entries = src]
                    ELSE NoTask]
    /\ posted = 0
    /\ ncmds = 1
    /\ timerDisc = 0
    /\ last = Step
    /\ enqLog = <<>>
    /\ deqLog = <<>>
    /\ snapshot = NoSnapshot
    /\ player = 1
    /\ created = 1
    /\ got = <<1>>

PlaylistNext ==
    \/ \E i \in Slots : PlaylistFetched(i)
    \/ \E i \in Slots : Added(i)

PlaylistSpec == PlaylistInit /\ [][PlaylistNext]_vars

\* ------------------------------------------------------ session lookup
\* get_player, lines 376-379, on the global pl when n MusicPlayer objects
\* have been constructed: the global afterwards, the number constructed and
\* the instance returned; the function has no suspension point
get_player_unchecked(pl, n) ==
    [player |-> n + 1, created |-> n + 1, ret |-> n + 1]

get_player(pl, n) ==
    IF pl = NoPlayer
    THEN [player |-> n + 1, created |-> n + 1, ret |-> n + 1]
    ELSE [player |-> pl, created |-> n, ret |-> pl]

\* a call of get_player (setup_music_commands, line 24); the fields of a
\* MusicPlayer just constructed are those of Init
GetPlayer ==
    /\ Len(got) < MaxLookups
    /\ LET g == get_player(player, created) IN
         /\ player' = g.player
         /\ created' = g.created
         /\ got' = Append(got, g.ret)
    /\ UNCHANGED <<qvars, pvars, xvars, svars, hvars, logs, snapshot>>

\* the process when player.py has been imported and no call has been made
LookupInit ==
    /\ queue = <<>>
    /\ current_item = None
    /\ is_playing = FALSE
    /\ current = None
    /\ voice_client = "none"
    /\ disconnect_timer = NoTimer
    /\ guildVc = FALSE
    /\ tp = "none"
    /\ tpItem = None
    /\ ending = 0
    /\ timers = {}
    /\ ntimers = 0
    /\ tasks = [i \in Slots |-> NoTask]
    /\ posted = 0
    /\ ncmds = 0
    /\ timerDisc = 0
    /\ last = Step
    /\ enqLog = <<>>
    /\ deqLog = <<>>
    /\ snapshot = NoSnapshot
    /\ player = NoPlayer
    /\ created = 0
    /\ got = <<>>

\* calls of get_player at any moment; the play command, registered by the
\* setup that made the first call, runs in between
PlayPath ==
    \/ \E b \in BOOLEAN : PlayCmd(b)
    \/ \E i \in Slots, n \in 0..CONNECT_RETRIES : ConnectLoop(i, n)
    \/ \E i \in Slots : Joined(i)
    \/ \E i \in Slots, b \in BOOLEAN, r \in Resolved : Resolve(i, b, r)
    \/ \E i \in Slots : Added(i)
    \/ \E i \in Slots : LoadDone(i, TRUE)
    \/ TrackEnds
    \/ AfterPlay(FALSE)
    \/ AdvancePosted

LookupNext ==
    \/ GetPlayer
    \/ got # <<>> /\ PlayPath

LookupSpec == LookupInit /\ [][LookupNext]_vars

\* ----------------------------------------------------- failing loads
\* the session of PlaybackInit when loading a track may fail: the command
\* goes on to _play_next, no further command is issued, the connection
\* stays, and a track that was started plays to its end
LoadsNext ==
    \/ \E i \in Slots : Added(i)
    \/ \E i \in Slots, b \in BOOLEAN : LoadDone(i, b)
    \/ \E i \in Slots : ErrSent(i)
    \/ TrackEnds
    \/ AfterPlay(FALSE)
    \/ AdvancePosted

LoadsSpec == PlaybackInit /\ [][LoadsNext]_vars /\ WF_vars(LoadsNext)

\* ------------------------------------------------ play commands alone
\* play commands, issued at any moment on a fresh session, with everything
\* that follows from them: loads that succeed or fail, tracks that end, the
\* idle timer
PlayOnlyNext ==
    \/ PlayPath
    \/ \E i \in Slots : LoadDone(i, FALSE)
    \/ \E i \in Slots : ErrSent(i)
    \/ \E i \in Slots : LostSent(i)
    \/ \E t \in timers : TimerFire(t)
    \/ \E t \in timers : TimerDisconnected(t)

PlayOnlySpec == Init /\ [][PlayOnlyNext]_vars

\* ----------------------------------------------------------- properties
\* the session's playback state as the code holds it
PlaybackState ==
    IF ~is_playing THEN "Idle"
    ELSE IF tp = "paused" THEN "Paused" ELSE "Playing"

\* a _play_next that popped a track and has not returned
Advancing == {i \in Slots : tasks[i].pc \in {"loading", "errSend", "lostSend"}}

\* C1: under add and get_next alone, the k-th successful get_next returns
\* the k-th item that was added (FIFO).
C1_Fifo ==
    /\ Len(deqLog) <= Len(enqLog)
    /\ \A k \in 1..Len(deqLog) : deqLog[k] = enqLog[k]

C1_Witness ==
    /\ Len(deqLog) >= 2
    /\ deqLog[1] # deqLog[2]
    /\ queue # <<>>

\* C2: a _play_next that popped a track never returns with current set
\* while the session is Idle, nor Playing while current is unset.
C2_AdvanceEndsConsistent ==
    [][\A i \in Slots :
         (i \in Advancing /\ tasks'[i].kind = "none")
         => \/ is_playing' /\ current' # None
            \/ ~is_playing' /\ current' = None]_vars

\* C3: Playing or Paused implies the queue store's current item and the
\* voice handle are set; Idle implies the queue store's current item is none.
C3_StateInvariant ==
    /\ PlaybackState \in {"Playing", "Paused"}
          => current_item # None /\ voice_client # "none"
    /\ PlaybackState = "Idle" => current_item = None

\* C4: at most one _play_next is in progress (has popped a track and has not
\* returned) at any time.
C4_OneAdvance == Cardinality(Advancing) <= 1

\* C5: every completion callback, with or without an error, posts exactly
\* one _play_next and changes neither the queue store nor the player; the
\* posted _play_next, once begun, pops the track at the front of pending.
C5_CallbackPostsOneAdvance ==
    [][/\ ending' < ending
          => /\ posted' = posted + 1
             /\ UNCHANGED <<queue, current_item, current, is_playing>>
       /\ (posted' < posted /\ queue # <<>>)
          => /\ queue' = Tail(queue)
             /\ \E i \in Slots : /\ tasks[i].kind = "none"
                                 /\ tasks'[i].pc = "loading"
                                 /\ tasks'[i].item = Head(queue)]_vars

C5_Witness ==
    /\ last = Last("after_play", TRUE)
    /\ posted > 0
    /\ queue # <<>>

\* C6: connected, Idle, pending empty and no further command leads to the
\* voice connection being disconnected.
IdleConnected == guildVc /\ ~is_playing /\ is_empty(queue)

C6_IdleEventuallyDisconnects ==
    \A n \in 0..MaxCmds :
        (IdleConnected /\ ncmds = n) ~> (~guildVc \/ ncmds # n)

\* C7: at most one idle timer is pending at any time, and no connection is
\* disconnected by the timer more than once.
C7_OneTimerOneDisconnect ==
    /\ Cardinality(SleepingTimers(timers)) <= 1
    /\ timerDisc <= 1

C7_Witness ==
    /\ timerDisc = 1
    /\ ntimers >= 2
    /\ ~guildVc

C9_EnqueueCancelsTimer ==
    [][\A i \in Slots :
         /\ (tasks[i].enqSeq >= 0 /\ tasks'[i].kind = "none")
            => \A t \in SleepingTimers(timers') : t.id > tasks[i].enqSeq
         /\ (tasks[i].pc = "prompt" /\ tasks'[i].kind = "none"
                /\ queue' # queue)
            => SleepingTimers(timers') = {}]_vars

C9_Witness == last = Last("play_next_pop", TRUE)

\* C10: a seek with a well-formed timestamp m:s issued while the session is
\* Playing a track puts a new entry at the front of pending, with that
\* track's source, its title annotated with the timestamp and the offset
\* 60*m+s, and stops the playback.
WellFormed(ts) == ~ParseFails(ts) /\ ~OutOfRange(ts)

C10_SeekInsertsFront ==
    [][\A ts \in Timestamps :
         (TSkip(ts) /\ WellFormed(ts) /\ voice_client = "live"
             /\ tp = "playing" /\ is_playing /\ current # None)
         => /\ Len(queue') = Len(queue) + 1
            /\ Tail(queue') = queue
            /\ Head(queue')[1] = Annotate(current[1], ts)
            /\ Head(queue')[2] = current[2]
            /\ Head(queue')[3] = total_seconds(ts)
            /\ tp' = "none"]_vars

\* C11: a seek with a well-formed timestamp issued while the track now
\* playing was itself started by a seek again puts an entry for that track,
\* with the new offset, at the front of pending and stops the playback.
SeekedTrackPlaying ==
    /\ voice_client = "live" /\ tp = "playing"
    /\ is_playing
    /\ current # None /\ Len(current) = 3
    /\ tpItem = current

C11_SecondSeekRewraps ==
    [][\A ts \in Timestamps :
         (TSkip(ts) /\ WellFormed(ts) /\ SeekedTrackPlaying)
         => /\ Len(queue') = Len(queue) + 1
            /\ Tail(queue') = queue
            /\ Head(queue')[2] = current[2]
            /\ Head(queue')[3] = total_seconds(ts)
            /\ tp' = "none"
            /\ ending' = ending + 1]_vars

\* C12: skip while a track is playing only stops the transport (pending,
\* current and the coroutines stay as they are); the callback of the stopped
\* track posts one _play_next; a posted _play_next makes the front of pending
\* current, or on an empty pending leaves the session Idle with the idle
\* timer armed.
C12_SkipStopsThenOneAdvance ==
    [][/\ (Skip /\ skip_stops(voice_client, tp))
          => /\ tp' = "none"
             /\ ending' = ending + 1
             /\ UNCHANGED <<queue, current_item, current, is_playing, posted,
                            tasks, timers>>
       /\ ending' < ending
          => /\ ending' = ending - 1
             /\ posted' = posted + 1
       /\ posted' < posted
          => /\ posted' = posted - 1
             /\ IF queue # <<>>
                THEN /\ current' = Head(queue)
                     /\ queue' = Tail(queue)
                     /\ is_playing'
                ELSE /\ ~is_playing'
                     /\ current' = None
                     /\ queue' = <<>>
                     /\ {t.id : t \in SleepingTimers(timers')}
                          = {disconnect_timer'}]_vars

C12_Witness ==
    /\ last = Last("skip", TRUE)
    /\ ending = 1
    /\ is_playing
    /\ Len(queue) = 2
    /\ queue[1] # queue[2]

\* C13: pause takes the transport only from playing to paused and resume only
\* from paused to playing; in any other state they change nothing; neither
\* ever changes pending, current, the playing flag or the connection.
C13_PauseResume ==
    [][/\ Pause
          => /\ tp' # tp => (tp = "playing" /\ tp' = "paused")
             /\ PlaybackState' # PlaybackState
                   => (PlaybackState = "Playing" /\ PlaybackState' = "Paused")
             /\ UNCHANGED <<queue, current_item, current, is_playing, tpItem,
                            ending, posted, tasks, timers, guildVc,
                            voice_client, disconnect_timer>>
       /\ Resume
          => /\ tp' # tp => (tp = "paused" /\ tp' = "playing")
             /\ PlaybackState' # PlaybackState
                   => (PlaybackState = "Paused" /\ PlaybackState' = "Playing")
             /\ UNCHANGED <<queue, current_item, current, is_playing, tpItem,
                            ending, posted, tasks, timers, guildVc,
                            voice_client, disconnect_timer>>]_vars

C13_Witness ==
    /\ last = Last("pause", FALSE)
    /\ tp = "paused"
    /\ is_playing
    /\ current # None

\* C14: skip while no track is playing on the transport (nothing ordered to
\* play, or the track paused) stops nothing, starts no advance and leaves
\* pending, current and the playback state as they were.
C14_SkipNoopUnlessPlaying ==
    [][(Skip /\ tp # "playing")
       => UNCHANGED <<tp, tpItem, ending, posted, tasks, queue, current_item,
                      current, is_playing, timers, guildVc, voice_client,
                      disconnect_timer>>]_vars

C14_Witness ==
    /\ last = Last("skip", FALSE)
    /\ tp = "paused"
    /\ is_playing
    /\ queue # <<>>

\* C15: qskip n with 1 <= n <= len(pending).  While a track is playing it
\* cuts pending down to the entries from position n on and stops the
\* transport, so that the track of position n is the one the callback's
\* _play_next pops; while the session is Idle it makes that track current at
\* once and pending is the entries that followed it, in their old order.
C15_SkipToPosition ==
    [][\A n \in 1..(MaxQueue + 1) :
         (QSkip(n) /\ n <= Len(queue))
         => /\ \/ tp' = "none" /\ ending' = ending + 1
                  /\ get_next(queue').ret = queue[n]
               \/ current' = queue[n] /\ UNCHANGED <<tp, ending>>
            /\ (is_playing /\ guildVc /\ tp = "playing")
               => /\ Len(queue') = Len(queue) - (n - 1)
                  /\ \A k \in 1..Len(queue') : queue'[k] = queue[k + n - 1]
                  /\ get_next(queue').ret = queue[n]
                  /\ tp' = "none"
                  /\ ending' = ending + 1
                  /\ UNCHANGED <<current, is_playing, posted, tasks>>
            /\ (~is_playing /\ tp = "none")
               => /\ current' = queue[n]
                  /\ is_playing'
                  /\ Len(queue') = Len(queue) - n
                  /\ \A k \in 1..Len(queue') : queue'[k] = queue[k + n]
                  /\ UNCHANGED <<tp, ending, posted>>]_vars

C15_Witness ==
    /\ last = Last("qskip", TRUE)
    /\ is_playing
    /\ tp = "none"
    /\ ending = 1
    /\ Len(queue) = 1

\* C16: qskip with an index outside 1..len(pending) changes neither pending,
\* current nor the playback state, stops nothing and starts no _play_next;
\* skip_to itself leaves pending as it is for such an index.
C16_SkipToRejected ==
    [][\A n \in -1..(MaxQueue + 2) :
         ~(1 <= n /\ n <= Len(queue))
         => /\ skip_to(queue, n) = queue
            /\ QSkip(n)
               => UNCHANGED <<queue, current_item, current, is_playing, tp,
                              tpItem, ending, posted, tasks, timers,
                              disconnect_timer, guildVc, voice_client>>]_vars

C16_Witness ==
    /\ last = Last("qskip_rejected", FALSE)
    /\ queue # <<>>
    /\ tp = "playing"

\* C17: in the queue store, skip_to(p) with 1 <= p <= len(pending) removes
\* the entries before position p and keeps the others in order, so that the
\* next get_next returns the entry that was at position p; skip_to(1) changes
\* nothing.
C17_SkipToThenGetNext ==
    [][\A p \in 1..MaxLog :
         (QSkipTo(p) /\ p <= Len(queue))
         => /\ Len(queue') = Len(queue) - (p - 1)
            /\ \A k \in 1..Len(queue') : queue'[k] = queue[k + p - 1]
            /\ get_next(queue').ret = queue[p]
            /\ get_next(queue').current_item = <<queue[p][1], queue[p][2]>>
            /\ p = 1 => queue' = queue]_vars

C17_Witness ==
    /\ last = Last("skip_to", TRUE)
    /\ Len(queue) >= 2
    /\ queue[1] # queue[2]

C19_ConnectRetries ==
    [][\A i \in Slots, n \in 0..3 :
         ConnectLoop(i, n)
         => LET r == connect_loop(n, 0, NoAttempts) IN
            /\ r.attempts <= 3
            /\ r.attempts = IF n < 3 THEN n + 1 ELSE 3
            /\ r.waits = SubSeq(<<1, 2>>, 1, IF n < 3 THEN n ELSE 2)
            /\ r.retry_notices = Len(r.waits)
            /\ n < 3 => /\ r.handle
                        /\ r.fail_notices = 0
                        /\ tasks'[i].pc = "joined"
                        /\ tasks'[i].h = "live"
                        /\ guildVc'
            /\ n >= 3 => /\ ~r.handle
                         /\ r.fail_notices = 1
                         /\ tasks'[i].kind = "none"
                         /\ UNCHANGED <<queue, current_item, current,
                                        is_playing, voice_client, guildVc, tp,
                                        timers, posted, ending>>
                         /\ PlaybackState = "Idle" => PlaybackState' = "Idle"]_vars

C19_Witness ==
    /\ last = Last("gave_up", TRUE)
    /\ ~guildVc
    /\ PlaybackState = "Idle"
    /\ \A i \in Slots : tasks[i].kind = "none"

\* C20: a play, search or playlist command whose voice connect fails for
\* good, or whose resolution fails (the resolver raises, the search comes
\* back empty, the playlist URL yields no entries), ends without changing
\* pending or current and without starting a _play_next.
FailedCommandStep(i) ==
    \/ ConnectLoop(i, 3)
    \/ \E r \in Resolved : Resolve(i, FALSE, r)
    \/ SearchResolved(i, <<>>)
    \/ \E es \in Playlists : PlaylistResolved(i, FALSE, es)
    \/ PlaylistResolved(i, TRUE, <<>>)

C20_FailureChangesNothing ==
    [][\A i \in Slots :
         FailedCommandStep(i)
         => /\ tasks'[i].kind = "none"
            /\ \A j \in Slots \ {i} : tasks'[j] = tasks[j]
            /\ UNCHANGED <<queue, current_item, current, is_playing, posted,
                           timers, disconnect_timer, tp, tpItem, ending>>]_vars

C20_Witness ==
    /\ last = Last("playlist", FALSE)
    /\ queue # <<>>
    /\ is_playing
    /\ tp = "playing"
    /\ \A i \in Slots : tasks[i].kind = "none"

\* C21: on an Idle session with pending t1..tn and no current track, with
\* no command interfering and no error: at every moment pending is a suffix
\* tk+1..tn of the list; while the session is Playing, current is tk, the
\* track popped last, and it is the track on the transport; the session is
\* Idle only before the first _play_next and after the callback of tn, and
\* then current is none.
C21_PlaysInOrder ==
    LET n == Len(enqLog)
        k == Len(enqLog) - Len(queue)
    IN  /\ k >= 0
        /\ queue = SubSeq(enqLog, k + 1, n)
        /\ is_playing => /\ k >= 1
                         /\ current = enqLog[k]
                         /\ PlaybackState = "Playing"
        /\ tp = "playing" => is_playing /\ tpItem = current
        /\ ~is_playing => /\ current = None
                          /\ k = 0 \/ k = n
        /\ (k = n /\ tp = "none" /\ ending = 0 /\ posted = 0
                  /\ \A i \in Slots : tasks[i].kind = "none")
           => ~is_playing /\ current = None

C21_Witness ==
    /\ Len(enqLog) >= 3
    /\ enqLog[1] # enqLog[2]
    /\ queue = <<>>
    /\ ~is_playing
    /\ current = None
    /\ ntimers = 1

\* C22: a _play_next that finds pending empty leaves the session Idle with
\* current none and exactly one idle timer pending, the one it has just
\* created with a delay of 120 seconds; a timer pending before is cancelled.
AdvanceOnEmpty ==
    /\ is_empty(queue)
    /\ \/ AdvancePosted
       \/ \E i \in Slots : ErrSent(i)
       \/ \E i \in Slots : Added(i) /\ ~is_playing

C22_EmptyAdvanceArmsOneTimer ==
    [][AdvanceOnEmpty
       => /\ PlaybackState' = "Idle"
          /\ current' = None
          /\ queue' = <<>>
          /\ ntimers' = ntimers + 1
          /\ disconnect_timer' = ntimers'
          /\ SleepingTimers(timers')
               = {[id |-> ntimers', st |-> "sleeping", delay |-> 120]}
          /\ SleepingTimers(timers) \cap SleepingTimers(timers') = {}]_vars

C22_Witness ==
    /\ last = Last("play_next_empty", TRUE)
    /\ ntimers >= 2
    /\ Cardinality(SleepingTimers(timers)) = 1

\* C23: get_next on a non-empty pending removes the first entry, makes its
\* title and url the queue store's current item and returns the entry, the
\* other entries keeping their order; on an empty pending it sets the current
\* item to none, returns nothing and leaves pending empty.
C23_GetNext ==
    [][QGetNext
       => IF queue # <<>>
          THEN /\ Len(queue') = Len(queue) - 1
               /\ \A k \in 1..Len(queue') : queue'[k] = queue[k + 1]
               /\ current_item' = <<queue[1][1], queue[1][2]>>
               /\ deqLog' = Append(deqLog, queue[1])
          ELSE /\ queue' = <<>>
               /\ current_item' = None
               /\ deqLog' = deqLog]_vars

C23_Witness ==
    /\ deqLog # <<>>
    /\ Len(deqLog[Len(deqLog)]) = 3
    /\ current_item = <<deqLog[Len(deqLog)][1], deqLog[Len(deqLog)][2]>>
    /\ Len(queue) >= 2

\* C24: shuffle leaves the queue store's current item alone and keeps the
\* length of pending and the number of occurrences of every entry; a pending
\* list of fewer than 2 entries is left exactly as it was.
Occurrences(q, x) == Cardinality({k \in 1..Len(q) : q[k] = x})

C24_ShufflePermutes ==
    [][QShuffle
       => /\ current_item' = current_item
          /\ Len(queue') = Len(queue)
          /\ \A k \in 1..Len(queue) :
               Occurrences(queue', queue[k]) = Occurrences(queue, queue[k])
          /\ Len(queue) < 2 => queue' = queue]_vars

C24_Witness ==
    /\ last = Last("shuffle", TRUE)
    /\ Len(queue) >= 3
    /\ queue[1] # queue[2]
    /\ current_item # None

\* C25: add_list gives the same pending list as add called for each item in
\* input order, and the playlist command appends its tracks in one step: the
\* old entries stay in front, followed by the playlist's tracks as one block
\* in input order, whatever other commands are under way.
RECURSIVE AddEach(_, _)
AddEach(q, items) ==
    IF items = <<>> THEN q
    ELSE AddEach(add(q, Head(items)[1], Head(items)[2]), Tail(items))

C25_BulkAppend ==
    [][/\ \A items \in Tracklists : add_list(queue, items) = AddEach(queue, items)
       /\ \A i \in Slots, es \in Playlists :
            (PlaylistResolved(i, TRUE, es) /\ es # <<>>)
            => LET items == songs_to_add(es) IN
               /\ queue' = AddEach(queue, items)
               /\ Len(queue') = Len(queue) + Len(items)
               /\ SubSeq(queue', 1, Len(queue)) = queue
               /\ SubSeq(queue', Len(queue) + 1, Len(queue')) = items]_vars

C25_Witness ==
    /\ last = Last("playlist", TRUE)
    /\ Len(queue) = 2
    /\ queue[1] # queue[2]
    /\ is_playing
    /\ \E i \in Slots : tasks[i].kind = "play" /\ tasks[i].pc = "resolve"

\* C26: the playlist command appends, behind the entries already pending
\* and leaving those in their old order, the entries with a title and a url
\* among the first PLAYLIST_LIMIT of the playlist, in the playlist's order,
\* hence never more than PLAYLIST_LIMIT tracks.
IsTrack(e) == Len(e) = 2

C26_PlaylistOrderAndLimit ==
    [][\A i \in Slots :
         (PlaylistFetched(i) /\ tasks'[i].pc = "added")
         => LET src == tasks[i].entries
                n == IF Len(src) < PLAYLIST_LIMIT THEN Len(src) ELSE PLAYLIST_LIMIT
                first == [k \in 1..n |-> src[k]]
                new == SubSeq(queue', Len(queue) + 1, Len(queue'))
            IN /\ SubSeq(queue', 1, Len(queue)) = queue
               /\ new = SelectSeq(first, IsTrack)
               /\ Len(new) <= PLAYLIST_LIMIT]_vars

C26_Witness ==
    \E i \in Slots :
        /\ tasks[i].pc = "added"
        /\ Len(tasks[i].entries) > PLAYLIST_LIMIT
        /\ \A k \in 1..Len(tasks[i].entries) : IsTrack(tasks[i].entries[k])
        /\ Len(queue) = PLAYLIST_LIMIT + 2
        /\ queue[1] = queue[2]
        /\ queue[3] # queue[4]

\* C27: clear leaves pending empty and the Queue Store's current none
\* whatever they held before, and a clear applied to the result of a clear
\* leaves pending and the Queue Store's current as they are.
C27_ClearIdempotent ==
    [][QStoreClear
       => /\ queue' = <<>>
          /\ current_item' = None
          /\ clear(queue', current_item')
               = [queue |-> queue', current_item |-> current_item']
          /\ (last.op \in {"clear", "clear_again"}
                /\ queue = <<>> /\ current_item = None)
               => queue' = queue /\ current_item' = current_item]_vars

C27_Witness ==
    /\ last = Last("clear_again", TRUE)
    /\ queue = <<>>
    /\ current_item = None

\* C28: the list the queue property hands out is not the Queue Store's own:
\* an add, get_next, skip_to, shuffle or clear that comes later leaves the
\* items of that list as they are, and removing an item from that list
\* leaves pending as it is.
StoreOp ==
    \/ \E r \in Resolved : QAdd(r)
    \/ QGetNext
    \/ \E n \in 0..(MaxLog + 1) : QSkipTo(n)
    \/ QShuffle
    \/ QStoreClear

C28_SnapshotNotAliased ==
    [][/\ QSnapshot => snapshot'.items = queue /\ queue' = queue
       /\ StoreOp => snapshot'.items = snapshot.items
       /\ QSnapshotEdit => queue' = queue]_vars

C28_Witness ==
    /\ snapshot.taken
    /\ Len(snapshot.items) = 2
    /\ snapshot.items[1] # snapshot.items[2]
    /\ Len(queue) = 4
    /\ last = Last("shuffle", TRUE)

\* C29: however the calls of get_player are interleaved with one another
\* and with the commands, at most one MusicPlayer is ever constructed, the
\* global player refers to it from the first call on, and every call
\* returned that one instance.
C29_OneSession ==
    /\ created <= 1
    /\ (got = <<>>) <=> (player = NoPlayer)
    /\ (player = NoPlayer) <=> (created = 0)
    /\ \A k \in 1..Len(got) : got[k] = player

C29_Witness ==
    /\ Len(got) = MaxLookups
    /\ created = 1
    /\ tp = "playing"
    /\ \E i \in Slots : tasks[i].kind = "play"

\* C30: when leave has completed and the _play_next posted by the callback
\* of the track that leave stopped is then begun, the session stays torn
\* down: Idle, pending empty, current none, no track loading or playing and
\* no idle timer pending.
TornDown ==
    /\ PlaybackState = "Idle"
    /\ queue = <<>>
    /\ current = None
    /\ tp = "none"
    /\ \A i \in Slots : tasks[i] = NoTask
    /\ SleepingTimers(timers) = {}
    /\ disconnect_timer = NoTimer

LeaveSettling ==
    /\ TornDown
    /\ ~guildVc
    /\ voice_client = "none"
    /\ timerDisc = 0
    /\ ending = 0
    /\ posted = 1
    /\ last = Last("after_play", FALSE)   \* after was called since leave returned

C30_TornDownAfterLeaveCallback ==
    [][(LeaveSettling /\ AdvancePosted) => TornDown']_vars

\* C31: when the answer to a search prompt is the number k of one of the
\* results, or 'queue', and the bot is connected, the track appended to
\* pending (and popped at once if the session is Idle with pending empty) is
\* the k-th result, the first for 'queue', whether or not a track is playing.
JustEnqueued == IF queue' = <<>> THEN current_item' ELSE queue'[Len(queue')]

C31_AnswerPicksKth ==
    [][\A i \in Slots, k \in 0..2 :
         (guildVc /\ SearchAnswered(i, k))
         => LET es == tasks[i].entries
                pick == IF k = AnswerQueue THEN 1 ELSE k
            IN JustEnqueued = <<es[pick][1], es[pick][2]>>]_vars

\* C32: a _play_next whose track has loaded calls play() on the connected
\* voice client only when no track is playing or paused there.
C32_PlayOnlyWhenTransportFree ==
    [][\A i \in Slots :
         (voice_client = "live" /\ LoadDone(i, TRUE)) => tp = "none"]_vars

\* C33: an idle timer whose check passes and which disconnects does so only
\* when no track is playing or paused on the transport.
C33_TimerDisconnectsOnlyWhenSilent ==
    [][(last' = Last("timer_fire", TRUE) /\ \E t \in timers : TimerFire(t))
       => tp = "none"]_vars

\* C34: with play commands alone, a command that has enqueued its track
\* starts _play_next only if the playing flag is unset, and then the flag is
\* set and the front track popped in the same step; so at most one
\* _play_next is in progress at a time, none while a track is on the
\* transport, and a command that finds the flag set leaves its track pending.
C34_OneAdvanceForConcurrentPlays ==
    [][/\ \A i \in Slots :
            Added(i)
            => IF is_playing
               THEN /\ queue' = queue
                    /\ Advancing' = Advancing
                    /\ tasks'[i] = NoTask
               ELSE queue # <<>>
                    => /\ is_playing'
                       /\ queue' = Tail(queue)
                       /\ Advancing' = Advancing \cup {i}
       /\ Cardinality(Advancing') <= 1
       /\ Advancing' # {} => tp' = "none"]_vars

C34_Witness ==
    \E i, j \in Slots :
        /\ tasks[i].pc = "loading"
        /\ tasks[j].kind = "play"
        /\ tasks[j].pc = "added"
        /\ is_playing
        /\ Len(queue) = 1
        /\ current = None \/ current # queue[1]
        /\ disconnect_timer = NoTimer
        /\ ntimers = 0

\* C35: when loading or starting a popped track fails, _play_next reports it
\* and, the notice sent, advances again: it pops the next pending track
\* (the failed one is gone, pending is one shorter) or, pending being empty,
\* leaves the session Idle with current none and exactly one idle timer
\* armed; pending shrinking by one per failure, every such chain ends, with
\* a later track playing or with the session Idle.
ChainEnded ==
    /\ Advancing = {}
    /\ \/ is_playing /\ tp = "playing" /\ tpItem = current
       \/ /\ ~is_playing /\ current = None /\ queue = <<>>
          /\ {t.id : t \in SleepingTimers(timers)} = {disconnect_timer}

C35_FailureChainEnds ==
    /\ [][\A i \in Slots :
            /\ (LoadDone(i, FALSE) /\ tp = "none")
               => /\ tasks'[i].pc = "errSend"
                  /\ UNCHANGED <<queue, current_item, is_playing, current>>
            /\ (ErrSent(i) /\ queue # <<>>)
               => /\ queue' = Tail(queue)
                  /\ tasks'[i].pc = "loading"
                  /\ tasks'[i].item = Head(queue)
                  /\ is_playing' /\ current' = Head(queue)
            /\ (ErrSent(i) /\ queue = <<>>) => ChainEnded']_vars
    /\ \A i \in Slots : (tasks[i].pc = "errSend") ~> ChainEnded

C35_Witness ==
    \E i \in Slots :
        /\ tasks[i].pc = "loading"
        /\ Len(enqLog) = 4
        /\ tasks[i].item = enqLog[3]
        /\ enqLog[2] # enqLog[3]
        /\ Len(queue) = 1
        /\ tp = "none" /\ ending = 0 /\ posted = 0
        /\ last = Last("play_next_pop", FALSE)

\* C36: a _play_next whose popped track has loaded and which finds the voice
\* client missing or disconnected orders no playback and goes on to report
\* the loss; the notice sent, it unsets the playing flag and returns: pending
\* is as it was (the popped track is not put back), no _play_next is begun
\* or posted, and no idle timer is armed.
C36_VoiceLostGivesUp ==
    [][\A i \in Slots :
         /\ (LoadDone(i, TRUE) /\ voice_client # "live")
            => /\ tasks'[i].pc = "lostSend"
               /\ UNCHANGED <<queue, current_item, tp, tpItem, is_playing,
                              timers, ntimers, disconnect_timer, posted,
                              ending>>
         /\ LostSent(i)
            => /\ ~is_playing'
               /\ tasks'[i] = NoTask
               /\ Advancing' = Advancing \ {i}
               /\ UNCHANGED <<queue, current_item, tp, tpItem, timers,
                              ntimers, disconnect_timer, posted, ending>>]_vars

C36_Witness ==
    /\ ~is_playing
    /\ current # None
    /\ queue # <<>>
    /\ current # queue[1]
    /\ Advancing = {}
    /\ tp = "none"
    /\ timers = {}
    /\ voice_client # "live"

\* C37: a seek issued while a track is playing is accepted exactly when its
\* timestamp is m:s with two integers, m >= 0 and 0 <= s < 60; accepted, it
\* puts an entry with the offset 60*m + s at the front of pending and stops
\* the transport; any other timestamp, and any seek issued while nothing is
\* playing, leaves pending, current and the playback as they were.
SeekRejected == UNCHANGED <<queue, current_item, current, is_playing, tp,
                            tpItem, ending>>

SeekSettled(ts) ==
    IF voice_client = "live" /\ tp = "playing" /\ WellFormed(ts)
    THEN /\ Len(queue') = Len(queue) + 1
         /\ Head(queue')[3] = 60 * ts[1].val + ts[2].val
         /\ tp' = "none"
    ELSE SeekRejected

C37_SeekAcceptedIffWellFormed ==
    [][\A ts \in Timestamps :
         (TSkip(ts) /\ (tp = "playing" => is_playing /\ current # None))
         => SeekSettled(ts)]_vars

\* the same holds of every seek of a track that was not itself started by a
\* seek
C37_SeekOfPlainTrack ==
    [][\A ts \in Timestamps :
         (TSkip(ts) /\ current # None /\ Len(current) = 2) => SeekSettled(ts)]_vars

====
